---------------------------- MODULE Spec2Model ----------------------------
(***************************************************************************)
(* A state-machine model of VQGANTrainer (src/trainer/trainer.py): the     *)
(* construction of the trainer, one optimisation step() statement by       *)
(* statement, and the epoch/batch driver train() with its visualisation    *)
(* and checkpoint side effects.                                            *)
(*                                                                         *)
(* Representation choices                                                  *)
(*  - An image is an identifier; a batch is a sequence of BatchSize images. *)
(*  - Model parameters and Adam moment states are version counters: the    *)
(*    number of optimizer updates applied to them.                         *)
(*  - A gradient buffer is the set of contributions accumulated into it,   *)
(*    each tagged with the loss it came from and the scalar factor that    *)
(*    multiplies it in that loss.                                          *)
(*  - Loss scalars are fixed-point numbers in units of 1/One, which keeps  *)
(*    every mean and every multiplication by 0.5 below exact.              *)
(*  - The generator, the discriminator and the perceptual scorer are       *)
(*    deterministic stubs whose outputs are chosen in Init.                *)
(*  - Python's None for sample_batch is the empty sequence.                *)
(***************************************************************************)
EXTENDS Integers, Sequences, FiniteSets

\* ------------------------------------------------------------------ bounds

MaxEpochs == 2
MaxSaveEvery == 3
MaxDiscStart == 2
MaxDiscFactor == 2
SmallEpochLen == 5
MaxScore == 2
MaxLoss == 1
MaxLambda == 2

\* ------------------------------------------------------- program constants

\* `if index % 100 == 0`
CkptEvery == 100
\* the literal 1.0 of the hinge terms, in fixed-point units
One == 4
\* imgs[:4], decoded_images[:4]
GridImages == 4
\* imgs[:1]
SampleImages == 1
\* batch_size of load_dataloader
BatchSize == 16
\* perceptual_loss_factor, rec_loss_factor
PerceptualLossFactor == 1
RecLossFactor == 1

\* a dataloader long enough for batch index CkptEvery to occur
LongEpochLen == CkptEvery + 1

\* ----------------------------------------------------------------- helpers

Min(a, b) == IF a <= b THEN a ELSE b

\* python s[:n]
Slice(s, n) == SubSeq(s, 1, Min(n, Len(s)))

RECURSIVE Sum(_)
Sum(t) == IF t = <<>> THEN 0 ELSE Head(t) + Sum(Tail(t))

\* torch.mean
Mean(t) == Sum(t) \div Len(t)

\* F.relu, elementwise
Relu(t) == [i \in 1..Len(t) |-> IF t[i] > 0 THEN t[i] ELSE 0]

\* 1.0 - t and 1.0 + t, elementwise
OneMinus(t) == [i \in 1..Len(t) |-> One - t[i]]
OnePlus(t) == [i \in 1..Len(t) |-> One + t[i]]

\* the batch the dataloader yields at position index of epoch e
Batch(e, i, n) == [k \in 1..BatchSize |-> (e * n + i) * BatchSize + k]

\* self.vqgan(x)[0]: the reconstruction of x under generator parameters p
Decode(x, p) == [k \in 1..Len(x) |-> <<x[k], p>>]

\* VQGAN.adopt_weight(disc_factor, i, threshold): 0 before the threshold
adopt_weight(factor, i, threshold) == IF i < threshold THEN 0 ELSE factor

\* mutant of GateCounter: the gate follows the batch index of the epoch
GateCounterIndex(gs, idx) == idx

\* the counter step() hands to adopt_weight
GateCounter(gs, idx) == gs

\* vq_loss = perceptual_rec_loss + q_loss + disc_factor * lambda * g_loss
VqLoss(prl, q, g, lam, gl) == prl + q + g * lam * gl

\* mutant of GanLoss: the hinge loss is not gated
GanLossUngated(g, real, fake) ==
    (Mean(Relu(OneMinus(real))) + Mean(Relu(OnePlus(fake)))) \div 2

\* gan_loss = disc_factor * 0.5 * (d_loss_real + d_loss_fake)
GanLoss(g, real, fake) ==
    g * ((Mean(Relu(OneMinus(real))) + Mean(Relu(OnePlus(fake)))) \div 2)

\* mutant of CadenceHit: the cadence is tested on the index plus one
CadenceHitAfterIncrement(idx, se) == (idx + 1) % se = 0

\* `index % self.save_every == 0`
CadenceHit(idx, se) == idx % se = 0

\* mutant of CheckpointHit: every 100th occurrence of the cadence
CheckpointHitNested(idx, se) ==
    idx % se = 0 /\ (idx \div se) % CkptEvery = 0

\* `index % 100 == 0`, nested in the cadence branch
CheckpointHit(idx, se) == CadenceHit(idx, se) /\ idx % CkptEvery = 0

\* ------------------------------------------------------------------- state

VARIABLES
    cfg,            \* constructor and train() arguments, len(dataloader), stubs
    pc,             \* the statement about to execute
    epoch, index,   \* the two loop variables of train()
    imgs,           \* the current batch
    global_step, sample_batch, gif_images,
    gen_params, disc_params,        \* model parameters
    opt_vq_state, opt_disc_state,   \* Adam moment states
    gen_grad, disc_grad,            \* .grad buffers
    loc,            \* the locals of step()
    graph,          \* the autograd graph of the current step
    recon_imgs,     \* files under reconstructed_imgs/
    ckpt_saves,     \* torch.save calls: epoch, batch index, state_dict
    movie,          \* the frames of movie.gif
    step_entry,     \* parameters and moments when the current step() began
    ops,            \* gradient operations of the current step(), in order
    failed_at       \* the statement that raised, if any

vars == <<cfg, pc, epoch, index, imgs, global_step, sample_batch, gif_images,
          gen_params, disc_params, opt_vq_state, opt_disc_state, gen_grad,
          disc_grad, loc, graph, recon_imgs, ckpt_saves, movie, step_entry,
          ops, failed_at>>

ScoreValues == {-MaxScore * One, 0, MaxScore * One}
ScoreTensors == ScoreValues \X ScoreValues
LossValues == {0, MaxLoss * One}
LambdaValues == {0, MaxLambda}

NoLocals ==
    [decoded_images |-> <<>>, q_loss |-> 0, perceptual_rec_loss |-> 0,
     disc_real |-> <<>>, disc_fake |-> <<>>, disc_factor |-> 0, g_loss |-> 0,
     lambda |-> 0, vq_loss |-> 0, gan_loss |-> 0]

Snapshot == <<gen_params, disc_params, opt_vq_state, opt_disc_state>>

\* VQGANTrainer.__init__
Constructed ==
    /\ pc = "loop"
    /\ epoch = 0
    /\ index = 0
    /\ imgs = <<>>
    /\ global_step = 0
    /\ sample_batch = <<>>
    /\ gif_images = <<>>
    /\ gen_params = 0
    /\ disc_params = 0
    /\ opt_vq_state = 0
    /\ opt_disc_state = 0
    /\ gen_grad = {}
    /\ disc_grad = {}
    /\ loc = NoLocals
    /\ graph = "none"
    /\ recon_imgs = {}
    /\ ckpt_saves = {}
    /\ movie = <<>>
    /\ step_entry = <<0, 0, 0, 0>>
    /\ ops = <<>>
    /\ failed_at = "none"

\* a training run: every cadence and warm-up length, short and long epochs,
\* one fixed stub
Init ==
    /\ Constructed
    /\ cfg \in [save_every : 1..MaxSaveEvery,
                disc_start : 0..MaxDiscStart,
                disc_factor : {MaxDiscFactor},
                epochs : {MaxEpochs},
                nbatches : {SmallEpochLen, LongEpochLen},
                perc : {One}, rec : {0}, q : {One},
                real : {<<MaxScore * One, 0>>},
                fake : {<<-MaxScore * One, 0>>},
                lam : {1}]

\* a short run over every stub output
InitLoss ==
    /\ Constructed
    /\ cfg \in [save_every : {2},
                disc_start : {1},
                disc_factor : 1..MaxDiscFactor,
                epochs : {1},
                nbatches : {2},
                perc : LossValues, rec : {0}, q : LossValues,
                real : ScoreTensors,
                fake : ScoreTensors,
                lam : LambdaValues]

\* ----------------------------------------------------------------- train()

InStep == {"forward", "perceptual", "disc_score", "losses", "zero_vq",
           "back_vq", "zero_disc", "back_disc", "step_vq", "step_disc"}

\* the sub-operations of step() that can raise
FailPoints == {"forward", "perceptual", "disc_score", "back_vq", "back_disc",
               "step_vq", "step_disc"}

\* `for index, imgs in enumerate(dataloader)`, imgs.to(device), self.step(imgs)
FetchBatch ==
    /\ pc = "loop"
    /\ epoch < cfg.epochs
    /\ index < cfg.nbatches
    /\ imgs' = Batch(epoch, index, cfg.nbatches)
    /\ step_entry' = Snapshot
    /\ ops' = <<>>
    /\ loc' = NoLocals
    /\ pc' = "forward"
    /\ UNCHANGED <<cfg, epoch, index, global_step, sample_batch, gif_images,
                   gen_params, disc_params, opt_vq_state, opt_disc_state,
                   gen_grad, disc_grad, graph, recon_imgs, ckpt_saves, movie,
                   failed_at>>

\* mutant of NextEpoch: the counter restarts with the epoch
NextEpochResetsCounter ==
    /\ pc = "loop"
    /\ epoch < cfg.epochs
    /\ index = cfg.nbatches
    /\ epoch' = epoch + 1
    /\ index' = 0
    /\ global_step' = 0
    /\ pc' = IF epoch + 1 < cfg.epochs THEN "loop" ELSE "done"
    /\ UNCHANGED <<cfg, imgs, sample_batch, gif_images,
                   gen_params, disc_params, opt_vq_state, opt_disc_state,
                   gen_grad, disc_grad, loc, graph, recon_imgs, ckpt_saves,
                   movie, step_entry, ops, failed_at>>

\* `for epoch in range(epochs)`: the dataloader is exhausted
NextEpoch ==
    /\ pc = "loop"
    /\ epoch < cfg.epochs
    /\ index = cfg.nbatches
    /\ epoch' = epoch + 1
    /\ index' = 0
    /\ pc' = IF epoch + 1 < cfg.epochs THEN "loop" ELSE "done"
    /\ UNCHANGED <<cfg, imgs, global_step, sample_batch, gif_images,
                   gen_params, disc_params, opt_vq_state, opt_disc_state,
                   gen_grad, disc_grad, loc, graph, recon_imgs, ckpt_saves,
                   movie, step_entry, ops, failed_at>>

\* ------------------------------------------------------------------ step()

StepFrame == <<cfg, epoch, index, imgs, global_step, sample_batch, gif_images,
               recon_imgs, ckpt_saves, movie, step_entry, failed_at>>

\* decoded_images, _, q_loss = self.vqgan(imgs)
Forward ==
    /\ pc = "forward"
    /\ loc' = [loc EXCEPT !.decoded_images = Decode(imgs, gen_params),
                          !.q_loss = cfg.q]
    /\ graph' = "live"
    /\ pc' = "perceptual"
    /\ UNCHANGED <<StepFrame, gen_params, disc_params, opt_vq_state,
                   opt_disc_state, gen_grad, disc_grad, ops>>

\* perceptual_rec_loss
Perceptual ==
    /\ pc = "perceptual"
    /\ loc' = [loc EXCEPT !.perceptual_rec_loss =
                   PerceptualLossFactor * cfg.perc + RecLossFactor * cfg.rec]
    /\ pc' = "disc_score"
    /\ UNCHANGED <<StepFrame, gen_params, disc_params, opt_vq_state,
                   opt_disc_state, gen_grad, disc_grad, graph, ops>>

\* disc_real, disc_fake
DiscScore ==
    /\ pc = "disc_score"
    /\ loc' = [loc EXCEPT !.disc_real = cfg.real, !.disc_fake = cfg.fake]
    /\ pc' = "losses"
    /\ UNCHANGED <<StepFrame, gen_params, disc_params, opt_vq_state,
                   opt_disc_state, gen_grad, disc_grad, graph, ops>>

\* disc_factor, g_loss, lambda, vq_loss, gan_loss
Losses ==
    /\ pc = "losses"
    /\ LET g == adopt_weight(cfg.disc_factor, GateCounter(global_step, index),
                             cfg.disc_start)
           gl == 0 - Mean(loc.disc_fake)
       IN loc' = [loc EXCEPT
                    !.disc_factor = g,
                    !.g_loss = gl,
                    !.lambda = cfg.lam,
                    !.vq_loss = VqLoss(loc.perceptual_rec_loss, loc.q_loss, g,
                                       cfg.lam, gl),
                    !.gan_loss = GanLoss(g, loc.disc_real, loc.disc_fake)]
    /\ pc' = "zero_vq"
    /\ UNCHANGED <<StepFrame, gen_params, disc_params, opt_vq_state,
                   opt_disc_state, gen_grad, disc_grad, graph, ops>>

\* self.opt_vq.zero_grad()
ZeroGradVQ ==
    /\ pc = "zero_vq"
    /\ gen_grad' = {}
    /\ ops' = Append(ops, "opt_vq.zero_grad")
    /\ pc' = "back_vq"
    /\ UNCHANGED <<StepFrame, gen_params, disc_params, opt_vq_state,
                   opt_disc_state, disc_grad, loc, graph>>

\* mutant of BackwardVQ: the generator is updated right after its backward pass
BackwardVQThenStep ==
    /\ pc = "back_vq"
    /\ graph = "live"
    /\ gen_grad' = gen_grad \cup {[loss |-> "vq_loss", factor |-> 1]}
    /\ disc_grad' = disc_grad \cup
           {[loss |-> "vq_loss", factor |-> loc.disc_factor * loc.lambda]}
    /\ graph' = "live"
    /\ gen_params' = gen_params + 1
    /\ opt_vq_state' = opt_vq_state + 1
    /\ ops' = Append(ops, "vq_loss.backward(retain_graph)")
    /\ pc' = "zero_disc"
    /\ UNCHANGED <<StepFrame, disc_params, opt_disc_state, loc>>

\* mutant of BackwardVQ: the graph is not retained
BackwardVQNoRetain ==
    /\ pc = "back_vq"
    /\ graph = "live"
    /\ gen_grad' = gen_grad \cup {[loss |-> "vq_loss", factor |-> 1]}
    /\ disc_grad' = disc_grad \cup
           {[loss |-> "vq_loss", factor |-> loc.disc_factor * loc.lambda]}
    /\ graph' = "freed"
    /\ ops' = Append(ops, "vq_loss.backward")
    /\ pc' = "zero_disc"
    /\ UNCHANGED <<StepFrame, gen_params, disc_params, opt_vq_state,
                   opt_disc_state, loc>>

\* vq_loss.backward(retain_graph=True): vq_loss reaches the generator through
\* every term and the discriminator through disc_factor * lambda * g_loss
BackwardVQ ==
    /\ pc = "back_vq"
    /\ graph = "live"
    /\ gen_grad' = gen_grad \cup {[loss |-> "vq_loss", factor |-> 1]}
    /\ disc_grad' = disc_grad \cup
           {[loss |-> "vq_loss", factor |-> loc.disc_factor * loc.lambda]}
    /\ graph' = "live"
    /\ ops' = Append(ops, "vq_loss.backward(retain_graph)")
    /\ pc' = "zero_disc"
    /\ UNCHANGED <<StepFrame, gen_params, disc_params, opt_vq_state,
                   opt_disc_state, loc>>

\* self.opt_disc.zero_grad()
ZeroGradDisc ==
    /\ pc = "zero_disc"
    /\ disc_grad' = {}
    /\ ops' = Append(ops, "opt_disc.zero_grad")
    /\ pc' = "back_disc"
    /\ UNCHANGED <<StepFrame, gen_params, disc_params, opt_vq_state,
                   opt_disc_state, gen_grad, loc, graph>>

\* gan_loss.backward(): gan_loss reaches the discriminator, and through
\* disc_fake = discriminator(decoded_images), not detached, the generator
BackwardDisc ==
    /\ pc = "back_disc"
    /\ graph = "live"
    /\ gen_grad' = gen_grad \cup
           {[loss |-> "gan_loss", factor |-> loc.disc_factor]}
    /\ disc_grad' = disc_grad \cup
           {[loss |-> "gan_loss", factor |-> loc.disc_factor]}
    /\ graph' = "freed"
    /\ ops' = Append(ops, "gan_loss.backward")
    /\ pc' = "step_vq"
    /\ UNCHANGED <<StepFrame, gen_params, disc_params, opt_vq_state,
                   opt_disc_state, loc>>

\* self.opt_vq.step()
OptVQStep ==
    /\ pc = "step_vq"
    /\ gen_params' = gen_params + 1
    /\ opt_vq_state' = opt_vq_state + 1
    /\ ops' = Append(ops, "opt_vq.step")
    /\ pc' = "step_disc"
    /\ UNCHANGED <<StepFrame, disc_params, opt_disc_state, gen_grad,
                   disc_grad, loc, graph>>

\* self.opt_disc.step(); return decoded_images, vq_loss, gan_loss
OptDiscStep ==
    /\ pc = "step_disc"
    /\ disc_params' = disc_params + 1
    /\ opt_disc_state' = opt_disc_state + 1
    /\ ops' = Append(ops, "opt_disc.step")
    /\ pc' = "incr"
    /\ UNCHANGED <<StepFrame, gen_params, opt_vq_state, gen_grad, disc_grad,
                   loc, graph>>

\* a sub-operation of step() raises: nothing catches it, the run ends
Fail ==
    /\ pc \in FailPoints
    /\ failed_at' = pc
    /\ pc' = "failed"
    /\ UNCHANGED <<cfg, epoch, index, imgs, global_step, sample_batch,
                   gif_images, gen_params, disc_params, opt_vq_state,
                   opt_disc_state, gen_grad, disc_grad, loc, graph,
                   recon_imgs, ckpt_saves, movie, step_entry, ops>>

\* ------------------------------------------------- train(), after the step

\* self.global_step += 1
Incr ==
    /\ pc = "incr"
    /\ global_step' = global_step + 1
    /\ pc' = "cadence"
    /\ UNCHANGED <<cfg, epoch, index, imgs, sample_batch, gif_images,
                   gen_params, disc_params, opt_vq_state, opt_disc_state,
                   gen_grad, disc_grad, loc, graph, recon_imgs, ckpt_saves,
                   movie, step_entry, ops, failed_at>>

\* make_grid(torch.cat((sample_batch, self.vqgan(sample_batch)[0])))
Frame(sb, p) == [sample |-> sb, recon |-> Decode(sb, p)]

\* save_image(torch.cat((imgs[:4], decoded_images[:4])), epoch-E_step-I.jpg)
ReconFile(e, i, x, d) ==
    [epoch |-> e, step |-> i, real |-> Slice(x, GridImages),
     fake |-> Slice(d, GridImages)]

\* torch.save(self.vqgan.state_dict(), vqgan_epoch_E.pt)
CkptSave(e, i, p) == [epoch |-> e, step |-> i, state |-> p]

\* the frames imageio.mimsave("movie.gif", ...) is given
MovieFrames(frames) == frames

\* mutant of AppendFrame: the buffer keeps the latest frame only
KeepLatestFrame(frames, f) == <<f>>

\* the frame buffer after gif_images.append(frame)
AppendFrame(frames, f) == Append(frames, f)

\* mutant of PickSample: the sample is taken anew at every cadence occurrence
PickSampleAlways(sb, x) == Slice(x, SampleImages)

\* `self.sample_batch = imgs[:1] if self.sample_batch is None else ...`
PickSample(sb, x) == IF sb = <<>> THEN Slice(x, SampleImages) ELSE sb

\* the body of `if index % self.save_every == 0`, and the end of the iteration
Cadence ==
    /\ pc = "cadence"
    /\ CadenceHit(index, cfg.save_every)
    /\ LET sb == PickSample(sample_batch, imgs)
           frames == AppendFrame(gif_images, Frame(sb, gen_params))
       IN /\ sample_batch' = sb
          /\ gif_images' = frames
          /\ recon_imgs' = recon_imgs \cup
                 {ReconFile(epoch, index, imgs, loc.decoded_images)}
          /\ IF CheckpointHit(index, cfg.save_every)
             THEN /\ ckpt_saves' = ckpt_saves \cup
                         {CkptSave(epoch, index, gen_params)}
                  /\ movie' = MovieFrames(frames)
             ELSE UNCHANGED <<ckpt_saves, movie>>
    /\ index' = index + 1
    /\ pc' = "loop"
    /\ UNCHANGED <<cfg, epoch, imgs, global_step, gen_params, disc_params,
                   opt_vq_state, opt_disc_state, gen_grad, disc_grad, loc,
                   graph, step_entry, ops, failed_at>>

\* the cadence is not hit: the iteration ends
SkipCadence ==
    /\ pc = "cadence"
    /\ ~CadenceHit(index, cfg.save_every)
    /\ index' = index + 1
    /\ pc' = "loop"
    /\ UNCHANGED <<cfg, epoch, imgs, global_step, sample_batch, gif_images,
                   gen_params, disc_params, opt_vq_state, opt_disc_state,
                   gen_grad, disc_grad, loc, graph, recon_imgs, ckpt_saves,
                   movie, step_entry, ops, failed_at>>

Next ==
    \/ FetchBatch
    \/ NextEpoch
    \/ Forward
    \/ Perceptual
    \/ DiscScore
    \/ Losses
    \/ ZeroGradVQ
    \/ BackwardVQ
    \/ ZeroGradDisc
    \/ BackwardDisc
    \/ OptVQStep
    \/ OptDiscStep
    \/ Fail
    \/ Incr
    \/ Cadence
    \/ SkipCadence

Spec == Init /\ [][Next]_vars

SpecLoss == InitLoss /\ [][Next]_vars


\* ------------------------------------------------------ vocabulary of claims

IsPrefix(a, b) == Len(a) <= Len(b) /\ SubSeq(b, 1, Len(a)) = a

CeilDiv(a, b) == (a + b - 1) \div b

\* batches whose iteration of train() has ended: <<epoch, index>>
CompletedBatches ==
    {b \in (0..(cfg.epochs - 1)) \X (0..(cfg.nbatches - 1)) :
        b[1] < epoch \/ (b[1] = epoch /\ b[2] < index)}

\* batches that have passed `self.global_step += 1`
BatchesCounted ==
    epoch * cfg.nbatches + index + (IF pc = "cadence" THEN 1 ELSE 0)

\* cadence occurrences so far
CadenceOccurrences ==
    epoch * CeilDiv(cfg.nbatches, cfg.save_every)
        + CeilDiv(index, cfg.save_every)

ImagesWritten == {<<r.epoch, r.step>> : r \in recon_imgs}

CheckpointsWritten == {<<r.epoch, r.step>> : r \in ckpt_saves}

\* step() has computed its losses and not yet returned control to the cadence
LossesComputed == {"zero_vq", "back_vq", "zero_disc", "back_disc", "step_vq",
                   "step_disc", "incr"}

GradientOrder ==
    <<"opt_vq.zero_grad", "vq_loss.backward(retain_graph)",
      "opt_disc.zero_grad", "gan_loss.backward", "opt_vq.step",
      "opt_disc.step">>

\* the losses whose gradient a buffer holds with a nonzero factor
LiveLosses(g) == {c.loss : c \in {d \in g : d.factor # 0}}

\* -------------------------------------------------------------------- C1

\* C1: global_step is 0 at construction, grows by exactly 1 at the counter
\* update of every batch and at no other statement, is never decreased or
\* reset, and always equals the number of batches that have passed the
\* counter update, over all epochs.
C1_GlobalStepCountsBatches ==
    /\ [](global_step = BatchesCounted)
    /\ [][IF pc = "incr"
          THEN global_step' = global_step + 1
          ELSE global_step' = global_step]_vars

\* a batch that hits no cadence has been counted, in the second epoch
C1_Witness ==
    /\ pc = "cadence"
    /\ epoch = 1
    /\ ~CadenceHit(index, cfg.save_every)
    /\ global_step = cfg.nbatches + index + 1

\* -------------------------------------------------------------------- C2

\* C2: the gate factor of a step is 0 when the counter it read is below
\* disc_start and the configured disc_factor (nonzero) from disc_start on; the
\* counter it read is the number of earlier batches, so the gate is 0 exactly
\* for the first disc_start batches.
C2_GateFollowsCounter ==
    pc \in LossesComputed =>
        /\ global_step = epoch * cfg.nbatches + index
        /\ global_step < cfg.disc_start => loc.disc_factor = 0
        /\ global_step >= cfg.disc_start =>
               loc.disc_factor = cfg.disc_factor /\ loc.disc_factor # 0
        /\ loc.disc_factor = 0 <=>
               epoch * cfg.nbatches + index < cfg.disc_start

\* the step at counter = disc_start, after a warm-up, runs with the gate open
C2_Witness ==
    /\ pc = "zero_vq"
    /\ cfg.disc_start > 0
    /\ global_step = cfg.disc_start
    /\ loc.disc_factor = cfg.disc_factor

\* -------------------------------------------------------------------- C3

\* C3: sample_batch is empty until the first cadence iteration (the first
\* batch of the run) ends, is then the first image of that batch, never
\* changes once set, and every frame of the buffer was rendered from it.
C3_SampleBatchFixed ==
    /\ [](/\ sample_batch = <<>> <=> (epoch = 0 /\ index = 0)
          /\ sample_batch # <<>> =>
                 sample_batch = Slice(Batch(0, 0, cfg.nbatches), SampleImages)
          /\ \A k \in 1..Len(gif_images) :
                 gif_images[k].sample = sample_batch)
    /\ [][sample_batch # <<>> => sample_batch' = sample_batch]_vars

\* a later epoch's visualisation has used the sample of the first batch
C3_Witness ==
    /\ epoch = 1
    /\ index > 0
    /\ Len(gif_images) > 1
    /\ gif_images[Len(gif_images)].sample = <<1>>

\* -------------------------------------------------------------------- C4

C5_AsStated ==
    ImagesWritten =
        {b \in CompletedBatches :
            (b[1] * cfg.nbatches + b[2]) % cfg.save_every = 0}

\* C5 amended: an image is written for a batch iff its index within its epoch
\* is a multiple of save_every; the cadence restarts at every epoch.
C5_VisualizationCadence ==
    ImagesWritten = {b \in CompletedBatches : b[2] % cfg.save_every = 0}

\* the first batch of the second epoch is visualised although the epoch
\* length is no multiple of save_every
C5_Witness ==
    /\ cfg.nbatches % cfg.save_every # 0
    /\ <<1, 0>> \in ImagesWritten

\* -------------------------------------------------------------------- C6

\* C6: when step() returns, with gate g: the generator loss is
\* rec_perc + q_loss + g * lambda * (-mean(disc_fake)) and twice the
\* discriminator loss is g * (mean(relu(1 - disc_real)) + mean(relu(1 +
\* disc_fake))); so with g = 0 the discriminator loss is 0 whatever the scores
\* and the generator loss is rec_perc + q_loss.
C6_ReturnedLosses ==
    pc = "incr" =>
        LET g == loc.disc_factor
            hinge == Mean(Relu(OneMinus(loc.disc_real)))
                         + Mean(Relu(OnePlus(loc.disc_fake)))
        IN /\ loc.vq_loss = loc.perceptual_rec_loss + loc.q_loss
                   - g * cfg.lam * Mean(loc.disc_fake)
           /\ 2 * loc.gan_loss = g * hinge
           /\ g = 0 =>
                  /\ loc.gan_loss = 0
                  /\ loc.vq_loss = loc.perceptual_rec_loss + loc.q_loss

\* a warm-up step whose hinge and adversarial terms would not vanish ungated
C6_Witness ==
    /\ pc = "incr"
    /\ loc.disc_factor = 0
    /\ loc.gan_loss = 0
    /\ Mean(Relu(OneMinus(loc.disc_real))) > 0
    /\ cfg.lam * Mean(loc.disc_fake) # 0

\* -------------------------------------------------------------------- C7

\* C7 as stated: whichever sub-operation of step() raises, parameters and
\* moments of both models are as they were when the step began.
C7_AsStated == pc = "failed" => Snapshot = step_entry

\* C7 amended: a failure before the optimizer updates leaves parameters and
\* moments of both models as they were; nothing is updated before both
\* backward passes have run; a failure of the discriminator's update leaves
\* the generator's update of that step applied and the discriminator's not.
C7_FailureBeforeUpdates ==
    /\ (pc = "failed" /\ failed_at \notin {"step_vq", "step_disc"}) =>
           Snapshot = step_entry
    /\ pc \in InStep \ {"step_disc"} => Snapshot = step_entry
    /\ Snapshot # step_entry =>
           /\ Len(ops) > 3
           /\ ops[2] = "vq_loss.backward(retain_graph)"
           /\ ops[4] = "gan_loss.backward"
    /\ (pc = "failed" /\ failed_at = "step_disc") =>
           /\ gen_params = step_entry[1] + 1
           /\ opt_vq_state = step_entry[3] + 1
           /\ disc_params = step_entry[2]
           /\ opt_disc_state = step_entry[4]

\* the second backward pass raised, after earlier steps had updated both models
C7_Witness ==
    /\ pc = "failed"
    /\ failed_at = "back_disc"
    /\ gen_params > 0
    /\ Snapshot = step_entry

\* -------------------------------------------------------------------- C8

\* C8: the gradient operations of a step run in the order zero generator
\* gradients, generator backward with the graph retained, zero discriminator
\* gradients, discriminator backward, generator update, discriminator update:
\* the log of a step is always a prefix of that order, complete when the step
\* returns, and the graph is still alive for the second backward pass.
C8_GradientOrder ==
    /\ IsPrefix(ops, GradientOrder)
    /\ pc \in {"incr", "cadence"} => ops = GradientOrder
    /\ pc = "back_disc" => graph = "live" /\ Len(ops) = 3
    /\ pc = "step_vq" => Len(ops) = 4
    /\ pc = "step_disc" => Len(ops) = 5

\* a step after the first has returned with all six operations logged
C8_Witness ==
    /\ pc = "incr"
    /\ global_step > 0
    /\ ops = GradientOrder

\* -------------------------------------------------------------------- C9

\* C9: the frame buffer only grows, by one frame at its end per cadence
\* occurrence, so its length is the number of cadence occurrences and of
\* images written; every write of the movie, and there is one with every
\* checkpoint, stores the whole buffer as it then is.
C9_FrameBufferAppendOnly ==
    /\ [](/\ Len(gif_images) = CadenceOccurrences
          /\ Len(gif_images) = Cardinality(recon_imgs)
          /\ IsPrefix(movie, gif_images))
    /\ [][/\ IsPrefix(gif_images, gif_images')
          /\ Len(gif_images') <= Len(gif_images) + 1
          /\ Len(gif_images') = Len(gif_images) + 1 <=>
                 (pc = "cadence" /\ index % cfg.save_every = 0)
          /\ (movie' # movie \/ ckpt_saves' # ckpt_saves) =>
                 /\ movie' = gif_images'
                 /\ Len(gif_images') = Len(gif_images) + 1]_vars

\* the movie has been rewritten with several frames, and the buffer has grown
\* since
C9_Witness ==
    /\ Len(movie) > 1
    /\ Len(gif_images) > Len(movie)
    /\ Cardinality(ckpt_saves) > 1

\* ------------------------------------------------------------------- C10

\* C10: when opt_vq.step() is about to run, the generator's gradient buffers
\* hold the gradient of vq_loss and of no other loss; when opt_disc.step() is
\* about to run, the discriminator's hold that of gan_loss and of no other.
C10_OneLossPerOptimizer ==
    /\ pc = "step_vq" => LiveLosses(gen_grad) = {"vq_loss"}
    /\ pc = "step_disc" => LiveLosses(disc_grad) \subseteq {"gan_loss"}

=============================================================================
